---- MODULE Spec2Model ----
(***************************************************************************)
(* A model of wilsonzlin/ff (src/src/main.ts): the option-to-argument      *)
(* compiler (buildConvertArgs, buildExtractFrameArgs, extractFrames,       *)
(* concat, ffmpeg) and the probe parsers (the bracketed-section parser of  *)
(* the first revision of class Ff, the JSON decoder of the later one).     *)
(*                                                                         *)
(* Representation of JavaScript values:                                    *)
(*  - an object is a function from its own keys to values; a key that is   *)
(*    not in the DOMAIN reads as undefined (no key is ever bound to an     *)
(*    explicit undefined);                                                 *)
(*  - a value whose static type is a union of a primitive and an object    *)
(*    (video, audio, loop, output of the extract operations) is boxed as   *)
(*    [typeof |-> "boolean" | "number" | "string", value |-> v], an object *)
(*    of such a union is the plain function;                               *)
(*  - argument tokens are TLA+ strings, raw texts read by the parsers are  *)
(*    sequences of one-character strings;                                  *)
(*  - time offsets are held in integral milliseconds, toFixed(3) renders   *)
(*    them as seconds with three decimals.                                 *)
(***************************************************************************)
EXTENDS Integers, Sequences, FiniteSets, TLC

VARIABLES cfg, req, pc, ran, ret

vars == <<cfg, req, pc, ran, ret>>

(***************************************************************************)
(* Bounds of the model.                                                    *)
(***************************************************************************)
MaxMapLen == 2

MaxSections == 2

MaxTimestamps == 3

MaxStderrLines == 3

(***************************************************************************)
(* Library primitives used by the source.                                  *)
(***************************************************************************)
\* the empty object {}
EmptyObj == [k \in {} |-> TRUE]

\* obj.key !== undefined
Has(obj, key) == key \in DOMAIN obj

\* typeof v == "boolean"
IsBoolean(v) == Has(v, "typeof") /\ v.typeof = "boolean"

\* typeof v == "string"
IsString(v) == Has(v, "typeof") /\ v.typeof = "string"

Box(t, v) == [typeof |-> t, value |-> v]

\* an optional key: o is <<>> (absent) or <<v>>
Field(key, o) == IF o = <<>> THEN EmptyObj ELSE (key :> o[1])

\* either nothing or one value of S
Opt(S) == {<<>>} \cup {<<v>> : v \in S}

\* all sequences over S of length at most n
RECURSIVE SeqsUpTo(_, _)
SeqsUpTo(S, n) ==
  IF n = 0 THEN {<<>>}
  ELSE SeqsUpTo(S, n - 1) \cup {Append(q, v) : q \in SeqsUpTo(S, n - 1), v \in S}

\* Array.prototype.join
RECURSIVE join(_, _)
join(parts, sep) ==
  IF parts = <<>> THEN ""
  ELSE IF Len(parts) = 1 THEN parts[1]
  ELSE parts[1] \o sep \o join(Tail(parts), sep)

\* three decimal digits of 0 .. 999
Pad3(n) ==
  IF n < 10 THEN "00" \o ToString(n)
  ELSE IF n < 100 THEN "0" \o ToString(n)
  ELSE ToString(n)

\* Number.prototype.toFixed(3) of ms / 1000
toFixed3(ms) == ToString(ms \div 1000) \o "." \o Pad3(ms % 1000)

\* mapDefined(obj[key], f) ?? [] where f yields the token list toks
WhenDefined(obj, key, toks) == IF Has(obj, key) THEN toks ELSE <<>>

(***************************************************************************)
(* createCfg and the configuration of an Ff instance.                      *)
(***************************************************************************)
createCfg(partial) ==
  [ffmpegCommand  |-> IF Has(partial, "ffmpegCommand") THEN partial.ffmpegCommand ELSE "ffmpeg",
   ffprobeCommand |-> IF Has(partial, "ffprobeCommand") THEN partial.ffprobeCommand ELSE "ffprobe",
   logLevel       |-> IF Has(partial, "logLevel") THEN partial.logLevel ELSE "error"]

(***************************************************************************)
(* buildConvertArgs, section by section.  Each section yields              *)
(* [thrown |-> "" or the error's name, args |-> the tokens it pushes].     *)
(***************************************************************************)
Pushed(toks) == [thrown |-> "", args |-> toks]

Thrown(err) == [thrown |-> err, args |-> <<>>]

\* ifDefined(threads, t => args.push("-threads", t))
threadsArgs(o) == WhenDefined(o, "threads", <<"-threads", ToString(o.threads)>>)

\* inputArgs with the trims pushed after the input file
inputArgsTrimsAfterFile(input) ==
  WhenDefined(input, "copyTimestamps", <<"-copyts">>)
  \o <<"-i", input.file>>
  \o WhenDefined(input, "start", <<"-ss", toFixed3(input.start)>>)
  \o WhenDefined(input, "duration", <<"-t", toFixed3(input.duration)>>)
  \o WhenDefined(input, "end", <<"-to", toFixed3(input.end)>>)

\* // Input.
inputArgs(input) ==
  WhenDefined(input, "copyTimestamps", <<"-copyts">>)
  \o WhenDefined(input, "start", <<"-ss", toFixed3(input.start)>>)
  \o WhenDefined(input, "duration", <<"-t", toFixed3(input.duration)>>)
  \o WhenDefined(input, "end", <<"-to", toFixed3(input.end)>>)
  \o <<"-i", input.file>>

\* // Metadata.
metadataArgs(metadata) == IF ~metadata THEN <<"-map_metadata", "-1">> ELSE <<>>

\* one element of the map list as a single token
mapToken(m) ==
  (IF Has(m, "exclude") /\ m.exclude THEN "-" ELSE "")
  \o ToString(m.input)
  \o (IF Has(m, "type") THEN ":" \o m.type ELSE "")
  \o (IF Has(m, "stream") THEN ":" \o ToString(m.stream) ELSE "")
  \o (IF Has(m, "optional") /\ m.optional THEN "?" ELSE "")

\* the map loop run from the last element of the list to the first
RECURSIVE mapTokensReversed(_)
mapTokensReversed(map) ==
  IF map = <<>> THEN <<>>
  ELSE mapTokensReversed(Tail(map)) \o <<"-map", mapToken(Head(map))>>

\* // Map.
RECURSIVE mapTokens(_)
mapTokens(map) ==
  IF map = <<>> THEN <<>>
  ELSE <<"-map", mapToken(Head(map))>> \o mapTokens(Tail(map))

mapArgs(o) == IF Has(o, "map") THEN mapTokens(o.map) ELSE <<>>

\* the filters array of a video codec object that is not a copy
videoFilters(video) ==
  WhenDefined(video, "fps", <<"fps=" \o ToString(video.fps)>>)
  \o WhenDefined(video, "resize",
       <<"scale="
         \o (IF Has(video.resize, "width") THEN ToString(video.resize.width) ELSE "-2")
         \o ":"
         \o (IF Has(video.resize, "height") THEN ToString(video.resize.height) ELSE "-2")>>)
  \o WhenDefined(video, "filter", <<video.filter>>)

\* videoFilterArgs with one -filter:v flag per fragment
RECURSIVE filterFlagPerFragment(_)
filterFlagPerFragment(filters) ==
  IF filters = <<>> THEN <<>>
  ELSE <<"-filter:v", Head(filters)>> \o filterFlagPerFragment(Tail(filters))

videoFilterArgsSplit(video) == filterFlagPerFragment(videoFilters(video))

videoFilterArgs(video) ==
  IF Len(videoFilters(video)) > 0
  THEN <<"-filter:v", join(videoFilters(video), ",")>>
  ELSE <<>>

\* String(v) of a boxed number or string
Str(v) == IF v.typeof = "number" THEN ToString(v.value) ELSE v.value

\* vp9ModeArgs with the constant-quality case falling through into
\* constrained-quality (a missing break)
vp9ModeArgsFallThrough(video) ==
  CASE video.mode = "average-bitrate" ->
         Pushed(<<"-b:v", Str(video.bitrate)>>)
    [] video.mode = "constant-bitrate" ->
         Pushed(<<"-minrate", Str(video.bitrate), "-b:v", Str(video.bitrate),
                  "-maxrate", Str(video.bitrate)>>)
    [] video.mode = "constant-quality" ->
         Pushed(<<"-crf", ToString(video.crf), "-b:v", "0",
                  "-crf", ToString(video.crf), "-b:v", "undefined">>)
    [] video.mode = "constrained-quality" ->
         IF Has(video, "crf")
         THEN Pushed(<<"-crf", ToString(video.crf), "-b:v", Str(video.bitrate)>>)
         ELSE Pushed(<<"-minrate", Str(video.minBitrate), "-b:v", Str(video.targetBitrate),
                       "-maxrate", Str(video.maxBitrate)>>)
    [] video.mode = "lossless" ->
         Pushed(<<"-lossless", "1">>)
    [] OTHER -> Thrown("UnreachableError")

\* switch (video.mode) of the vp9 case
vp9ModeArgs(video) ==
  CASE video.mode = "average-bitrate" ->
         Pushed(<<"-b:v", Str(video.bitrate)>>)
    [] video.mode = "constant-bitrate" ->
         Pushed(<<"-minrate", Str(video.bitrate), "-b:v", Str(video.bitrate),
                  "-maxrate", Str(video.bitrate)>>)
    [] video.mode = "constant-quality" ->
         Pushed(<<"-crf", ToString(video.crf), "-b:v", "0">>)
    [] video.mode = "constrained-quality" ->
         IF Has(video, "crf")
         THEN Pushed(<<"-crf", ToString(video.crf), "-b:v", Str(video.bitrate)>>)
         ELSE Pushed(<<"-minrate", Str(video.minBitrate), "-b:v", Str(video.targetBitrate),
                       "-maxrate", Str(video.maxBitrate)>>)
    [] video.mode = "lossless" ->
         Pushed(<<"-lossless", "1">>)
    [] OTHER -> Thrown("UnreachableError")

\* case "vp9" up to the mode switch
vp9TuneArgs(video) ==
  WhenDefined(video, "cpuUsed", <<"-cpu-used", ToString(video.cpuUsed)>>)
  \o WhenDefined(video, "deadline", <<"-deadline", video.deadline>>)
  \o (IF Has(video, "multithreading") /\ video.multithreading THEN <<"-row-mt", "1">> ELSE <<>>)

\* -loop of the gif case
gifLoopArgs(loop) ==
  IF IsBoolean(loop)
  THEN <<"-loop", IF loop.value THEN "0" ELSE "-1">>
  ELSE <<"-loop", ToString(loop.value)>>

\* switch (video.codec): no default case
videoCodecArgs(video) ==
  CASE video.codec = "libtheora" -> Pushed(<<"-q:v", ToString(video.quality)>>)
    [] video.codec = "libx264" ->
         Pushed(<<"-preset", video.preset, "-crf", ToString(video.crf),
                  "-max_muxing_queue_size", "1048576">>)
    [] video.codec = "gif" -> Pushed(gifLoopArgs(video.loop))
    [] video.codec = "vp9" ->
         IF vp9ModeArgs(video).thrown # ""
         THEN vp9ModeArgs(video)
         ELSE Pushed(vp9TuneArgs(video) \o vp9ModeArgs(video).args)
    [] OTHER -> Pushed(<<>>)

\* // Video.
videoArgs(o) ==
  IF ~Has(o, "video") THEN Pushed(<<>>)
  ELSE IF IsBoolean(o.video)
  THEN Pushed(IF o.video.value THEN <<"-c:v", "copy">> ELSE <<"-vn">>)
  ELSE IF o.video.codec = "copy"
  THEN Pushed(WhenDefined(o.video, "filter", <<"-filter:v", o.video.filter>>)
              \o <<"-c:v", "copy">>)
  ELSE IF videoCodecArgs(o.video).thrown # ""
  THEN videoCodecArgs(o.video)
  ELSE Pushed(videoFilterArgs(o.video)
              \o WhenDefined(o.video, "vsync", <<"-vsync", o.video.vsync>>)
              \o <<"-c:v", o.video.codec>>
              \o videoCodecArgs(o.video).args)

\* the codec tag handed on as the token after -c:a, whatever the codec
audioCodecTokenVerbatim(audio) == audio.codec

\* the token after -c:a
audioCodecToken(audio) ==
  IF audio.codec = "pcm"
  THEN "pcm_" \o audio.signedness \o ToString(audio.bits)
       \o (IF Has(audio, "endianness") THEN audio.endianness ELSE "")
  ELSE audio.codec

\* // Audio.
audioArgs(o) ==
  IF ~Has(o, "audio") THEN <<>>
  ELSE IF IsBoolean(o.audio)
  THEN (IF o.audio.value THEN <<"-c:a", "copy">> ELSE <<"-an">>)
  ELSE WhenDefined(o.audio, "filter", <<"-af", o.audio.filter>>)
       \o <<"-c:a", audioCodecToken(o.audio)>>
       \o (IF Has(o.audio, "downmix") /\ o.audio.downmix THEN <<"-ac", "1">> ELSE <<>>)
       \o (IF Has(o.audio, "samplingRate") /\ o.audio.samplingRate # 0
           THEN <<"-ar", ToString(o.audio.samplingRate)>> ELSE <<>>)
       \o (IF o.audio.codec = "libmp3lame" \/ o.audio.codec = "libvorbis"
           THEN <<"-q:a", ToString(o.audio.quality)>> ELSE <<>>)

\* outputArgs with the output file pushed before the format and the trims
outputArgsFileFirst(output) ==
  (IF Has(output, "movflags") /\ Len(output.movflags) > 0
   THEN <<"-movflags", join(output.movflags, "+")>> ELSE <<>>)
  \o <<output.file>>
  \o WhenDefined(output, "format", <<"-f", output.format>>)
  \o WhenDefined(output, "start", <<"-ss", toFixed3(output.start)>>)
  \o WhenDefined(output, "duration", <<"-t", toFixed3(output.duration)>>)

\* // Output.
outputArgs(output) ==
  (IF Has(output, "movflags") /\ Len(output.movflags) > 0
   THEN <<"-movflags", join(output.movflags, "+")>> ELSE <<>>)
  \o WhenDefined(output, "format", <<"-f", output.format>>)
  \o WhenDefined(output, "start", <<"-ss", toFixed3(output.start)>>)
  \o WhenDefined(output, "duration", <<"-t", toFixed3(output.duration)>>)
  \o <<output.file>>

buildConvertArgs(o) ==
  IF videoArgs(o).thrown # "" THEN videoArgs(o)
  ELSE Pushed(threadsArgs(o)
              \o inputArgs(o.input)
              \o metadataArgs(o.metadata)
              \o mapArgs(o)
              \o videoArgs(o).args
              \o audioArgs(o)
              \o outputArgs(o.output))

(***************************************************************************)
(* The other operations that build an argument list.                       *)
(***************************************************************************)
\* typeof output == "string" ? [output] : ["-f", output.format, output.path]
outputTarget(output) ==
  IF IsString(output) THEN <<output.value>>
  ELSE <<"-f", output.format, output.path>>

buildExtractFrameArgs(o) ==
  WhenDefined(o, "timestamp", <<"-ss", toFixed3(o.timestamp)>>)
  \o <<"-i", o.input>>
  \o WhenDefined(o, "scaleWidth", <<"-filter:v", "scale=" \o ToString(o.scaleWidth) \o ":-1">>)
  \o <<"-frames:v", "1">>
  \o WhenDefined(o, "quality", <<"-q:v", ToString(o.quality)>>)
  \o outputTarget(o.output)

\* Array.isArray(fps) ? fps.join("/") : fps
fpsText(fps) ==
  IF fps.typeof = "array"
  THEN ToString(fps.value[1]) \o "/" \o ToString(fps.value[2])
  ELSE ToString(fps.value)

\* the args array of extractFrames
extractFramesArgs(o) ==
  <<"-hide_banner", "-nostdin", "-y">>
  \o WhenDefined(o, "threads", <<"-threads", ToString(o.threads)>>)
  \o <<"-loglevel", "info">>
  \o WhenDefined(o, "startTime", <<"-ss", toFixed3(o.startTime)>>)
  \o <<"-i", o.input>>
  \o <<"-filter:v",
        join(WhenDefined(o, "fps", <<"fps=" \o fpsText(o.fps)>>)
             \o WhenDefined(o, "scaleWidth", <<"scale=" \o ToString(o.scaleWidth) \o ":-1">>)
             \o <<"showinfo">>, ",")>>
  \o WhenDefined(o, "quality", <<"-q:v", ToString(o.quality)>>)
  \o outputTarget(o.output)

\* the arguments concat hands to ffmpeg after logLevel
concatArgs(o) ==
  <<"-f", "concat", "-safe", "0", "-i", o.filesListFile, "-c", "copy">>
  \o outputTarget(o.output)

\* private ffmpeg(logLevel = this.cfg.logLevel, ...args): the call it hands to
\* runCommandWithoutOutput
ffmpeg(c, o, args) ==
  [command |-> c.ffmpegCommand,
   args |-> <<"-hide_banner", "-nostdin", "-y", "-loglevel",
              IF Has(o, "logLevel") THEN o.logLevel ELSE c.logLevel>> \o args,
   stream |-> "none"]

(***************************************************************************)
(* Text primitives of the parsers.  A text is a sequence of one-character  *)
(* strings.                                                                *)
(***************************************************************************)
Whitespace == {" ", "\t", "\n", "\r"}

LineBreaks == {"\r", "\n"}

UpperCase ==
  {"A", "B", "C", "D", "E", "F", "G", "H", "I", "J", "K", "L", "M",
   "N", "O", "P", "Q", "R", "S", "T", "U", "V", "W", "X", "Y", "Z"}

DigitChars == <<"0", "1", "2", "3", "4", "5", "6", "7", "8", "9">>

Digits == {DigitChars[i] : i \in 1..10}

\* the first position from p on whose character is not in S (Len(t) + 1 if none)
SpanIn(t, p, S) ==
  IF \E k \in p..Len(t) : t[k] \notin S
  THEN CHOOSE k \in p..Len(t) : t[k] \notin S /\ \A j \in p..(k - 1) : t[j] \in S
  ELSE Len(t) + 1

\* the first position from p on whose character is in S (Len(t) + 1 if none)
SpanNotIn(t, p, S) ==
  IF \E k \in p..Len(t) : t[k] \in S
  THEN CHOOSE k \in p..Len(t) : t[k] \in S /\ \A j \in p..(k - 1) : t[j] \notin S
  ELSE Len(t) + 1

\* the last position whose character is not in S (0 if none)
LastNotIn(t, S) ==
  IF \E k \in 1..Len(t) : t[k] \notin S
  THEN CHOOSE k \in 1..Len(t) : t[k] \notin S /\ \A j \in (k + 1)..Len(t) : t[j] \in S
  ELSE 0

\* String.prototype.trim
trim(t) == SubSeq(t, SpanIn(t, 1, Whitespace), LastNotIn(t, Whitespace))

\* t.startsWith(w, p): w stands in t at position p
StandsAt(t, p, w) ==
  /\ p + Len(w) - 1 <= Len(t)
  /\ \A k \in 1..Len(w) : t[p + k - 1] = w[k]

\* String.prototype.split(c) for a one-character separator c
RECURSIVE splitChar(_, _)
splitChar(t, c) ==
  IF SpanNotIn(t, 1, {c}) > Len(t) THEN <<t>>
  ELSE <<SubSeq(t, 1, SpanNotIn(t, 1, {c}) - 1)>>
       \o splitChar(SubSeq(t, SpanNotIn(t, 1, {c}) + 1, Len(t)), c)

\* String.prototype.split(c, limit): all the pieces are cut, the first limit are kept
splitLimit(t, c, limit) ==
  IF Len(splitChar(t, c)) <= limit THEN splitChar(t, c)
  ELSE SubSeq(splitChar(t, c), 1, limit)

\* String.prototype.split(/[\r\n]+/)
RECURSIVE splitLines(_)
splitLines(t) ==
  IF SpanNotIn(t, 1, LineBreaks) > Len(t) THEN <<t>>
  ELSE <<SubSeq(t, 1, SpanNotIn(t, 1, LineBreaks) - 1)>>
       \o splitLines(SubSeq(t, SpanIn(t, SpanNotIn(t, 1, LineBreaks), LineBreaks), Len(t)))

(***************************************************************************)
(* JavaScript numbers, as far as the parsers compute them: NaN, or the     *)
(* quotient num / den of two integers (den = 0: an infinity, or NaN for    *)
(* 0 / 0, which the model keeps as the quotient).                          *)
(***************************************************************************)
NaN == [kind |-> "NaN"]

Num(n, d) == [kind |-> "number", num |-> n, den |-> d]

\* the value of the decimal digits t[from .. to]
RECURSIVE digitsValue(_, _, _)
digitsValue(t, from, to) ==
  IF to < from THEN 0
  ELSE 10 * digitsValue(t, from, to - 1)
       + (CHOOSE v \in 0..9 : DigitChars[v + 1] = t[to])

RECURSIVE pow10(_)
pow10(n) == IF n = 0 THEN 1 ELSE 10 * pow10(n - 1)

\* Number.parseInt(s, 10) of a defined string: leading whitespace, a sign, digits
parseIntText(t) ==
  LET p == SpanIn(t, 1, Whitespace)
      neg == p <= Len(t) /\ t[p] = "-"
      q == IF p <= Len(t) /\ t[p] \in {"-", "+"} THEN p + 1 ELSE p
      e == SpanIn(t, q, Digits)
  IN  IF e = q THEN NaN
      ELSE Num((IF neg THEN -1 ELSE 1) * digitsValue(t, q, e - 1), 1)

\* Number.parseInt(obj[key], 10); parseInt(undefined) is NaN
parseInt(obj, key) == IF Has(obj, key) THEN parseIntText(obj[key]) ELSE NaN

\* Number.parseFloat(s) of a defined string: leading whitespace, a sign, digits,
\* a fraction (exponents and Infinity do not occur in the texts of the model)
parseFloatText(t) ==
  LET p == SpanIn(t, 1, Whitespace)
      neg == p <= Len(t) /\ t[p] = "-"
      q == IF p <= Len(t) /\ t[p] \in {"-", "+"} THEN p + 1 ELSE p
      e == SpanIn(t, q, Digits)
      dot == e <= Len(t) /\ t[e] = "."
      f == IF dot THEN SpanIn(t, e + 1, Digits) ELSE e
      sign == IF neg THEN -1 ELSE 1
  IN  IF e = q /\ (~dot \/ f = e + 1) THEN NaN
      ELSE IF ~dot \/ f = e + 1 THEN Num(sign * digitsValue(t, q, e - 1), 1)
      ELSE Num(sign * (digitsValue(t, q, e - 1) * pow10(f - e - 1)
                       + digitsValue(t, e + 1, f - 1)),
               pow10(f - e - 1))

\* Number.parseFloat(obj[key])
parseFloat(obj, key) == IF Has(obj, key) THEN parseFloatText(obj[key]) ELSE NaN

\* a / b
divide(a, b) ==
  IF a.kind = "NaN" \/ b.kind = "NaN" THEN NaN
  ELSE Num(a.num * b.den, a.den * b.num)

\* Array.prototype.reduce((numerator, denominator) => numerator / denominator)
\* of a non-empty array of numbers
RECURSIVE reduceDivide(_)
reduceDivide(ns) ==
  IF Len(ns) = 1 THEN ns[1]
  ELSE divide(reduceDivide(SubSeq(ns, 1, Len(ns) - 1)), ns[Len(ns)])

(***************************************************************************)
(* probe of the first revision of class Ff: the bracketed-section format.  *)
(***************************************************************************)
K_codec_type == <<"c", "o", "d", "e", "c", "_", "t", "y", "p", "e">>

K_codec_name == <<"c", "o", "d", "e", "c", "_", "n", "a", "m", "e">>

K_height == <<"h", "e", "i", "g", "h", "t">>

K_width == <<"w", "i", "d", "t", "h">>

K_r_frame_rate == <<"r", "_", "f", "r", "a", "m", "e", "_", "r", "a", "t", "e">>

K_duration == <<"d", "u", "r", "a", "t", "i", "o", "n">>

T_video == <<"v", "i", "d", "e", "o">>

T_audio == <<"a", "u", "d", "i", "o">>

T_STREAM == <<"S", "T", "R", "E", "A", "M">>

T_FORMAT == <<"F", "O", "R", "M", "A", "T">>

\* /\[([A-Z]+)]([^\[]*)\[\/\1]/ tried at position p: the two groups and the
\* position after the match.  [A-Z]+ and [^\[]* are greedy and what must follow
\* each is a character outside its class, so backtracking finds no other match.
sectionMatchAt(t, p) ==
  LET n == SpanIn(t, p + 1, UpperCase)
      name == SubSeq(t, p + 1, n - 1)
      b == SpanNotIn(t, n + 1, {"["})
      closing == <<"[", "/">> \o name \o <<"]">>
  IN  IF /\ p <= Len(t) /\ t[p] = "["
         /\ n > p + 1
         /\ n <= Len(t) /\ t[n] = "]"
         /\ StandsAt(t, b, closing)
      THEN [ok |-> TRUE, sectionName |-> name, sectionData |-> SubSeq(t, n + 1, b - 1),
            end |-> b + Len(closing)]
      ELSE [ok |-> FALSE]

\* raw.matchAll(/.../g) from position p on: the matches from left to right
RECURSIVE sectionMatches(_, _)
sectionMatches(t, p) ==
  IF p > Len(t) THEN <<>>
  ELSE IF sectionMatchAt(t, p).ok
  THEN <<sectionMatchAt(t, p)>> \o sectionMatches(t, sectionMatchAt(t, p).end)
  ELSE sectionMatches(t, p + 1)

\* Object.fromEntries: a later entry replaces an earlier one of the same key;
\* an entry of one element binds its key to undefined
RECURSIVE fromEntries(_)
fromEntries(entries) ==
  IF entries = <<>> THEN EmptyObj
  ELSE LET e == entries[Len(entries)]
           before == fromEntries(SubSeq(entries, 1, Len(entries) - 1))
       IN  IF Len(e) >= 2 THEN (e[1] :> e[2]) @@ before
           ELSE [k \in DOMAIN before \ {e[1]} |-> before[k]]

\* kv => kv.split("=", 2)
keyValue(kv) == splitLimit(kv, "=", 2)

\* the values object of one section
sectionValues(sectionData) ==
  LET lines == splitLines(trim(sectionData))
  IN  fromEntries([i \in 1..Len(lines) |-> keyValue(lines[i])])

\* properties.key = obj[from]; an undefined value leaves the key reading undefined
assign(properties, key, obj, from) ==
  IF Has(obj, from) THEN (key :> obj[from]) @@ properties
  ELSE [k \in DOMAIN properties \ {key} |-> properties[k]]

\* values.r_frame_rate.split("/").map(p => Number.parseInt(p, 10)).reduce(...)
frameRate(text) ==
  LET parts == splitChar(text, "/")
  IN  reduceDivide([i \in 1..Len(parts) |-> parseIntText(parts[i])])

\* the body of the for loop: the switch on the section name.  Yields
\* [thrown, properties].
applySection(properties, sectionName, values) ==
  IF sectionName = T_STREAM
  THEN IF Has(values, K_codec_type) /\ values[K_codec_type] = T_video
       THEN IF ~Has(values, K_r_frame_rate)
            THEN [thrown |-> "TypeError", properties |-> properties]
            ELSE [thrown |-> "",
                  properties |->
                    ("fps" :> frameRate(values[K_r_frame_rate]))
                    @@ ("width" :> parseInt(values, K_width))
                    @@ ("height" :> parseInt(values, K_height))
                    @@ assign(properties, "videoCodec", values, K_codec_name)]
       ELSE IF Has(values, K_codec_type) /\ values[K_codec_type] = T_audio
       THEN [thrown |-> "",
             properties |-> assign(properties, "audioCodec", values, K_codec_name)]
       ELSE [thrown |-> "", properties |-> properties]
  ELSE IF sectionName = T_FORMAT
  THEN [thrown |-> "",
        properties |-> ("duration" :> parseFloat(values, K_duration)) @@ properties]
  ELSE [thrown |-> "", properties |-> properties]

\* initialProperties with every field preset to a zero value
initialPropertiesZeroed ==
  [videoCodec |-> <<>>, audioCodec |-> <<>>, width |-> Num(0, 1), height |-> Num(0, 1),
   fps |-> Num(0, 1), duration |-> Num(0, 1)]

\* const properties = {} as any
initialProperties == EmptyObj

\* the for loop over the matches
RECURSIVE foldSections(_, _)
foldSections(properties, matches) ==
  IF matches = <<>> THEN [thrown |-> "", properties |-> properties]
  ELSE LET m == Head(matches)
           r == applySection(properties, m.sectionName, sectionValues(m.sectionData))
       IN  IF r.thrown # "" THEN r ELSE foldSections(r.properties, Tail(matches))

\* probe (first revision), given the text the adapter returned
probeSections(raw) == foldSections(initialProperties, sectionMatches(trim(raw), 1))

(***************************************************************************)
(* probe of the later revision: JSON.parse of the trimmed text ffprobe     *)
(* printed.  JSON.parse is modelled for objects, arrays, strings without   *)
(* escapes and integers, with white space between the tokens; a JSON value *)
(* is [t |-> "object" | "array" | "string" | "number", v |-> its content]. *)
(***************************************************************************)
\* the character at position p, "" past the end
At(t, p) == IF p \in 1..Len(t) THEN t[p] ELSE ""

skipWs(t, p) == SpanIn(t, p, Whitespace)

JsonFail == [ok |-> FALSE]

JsonOk(val, pos) == [ok |-> TRUE, val |-> val, pos |-> pos]

jsonString(t, p) ==
  LET e == SpanNotIn(t, p + 1, {"\""})
  IN  IF At(t, p) = "\"" /\ e <= Len(t)
      THEN JsonOk([t |-> "string", v |-> SubSeq(t, p + 1, e - 1)], e + 1)
      ELSE JsonFail

jsonNumber(t, p) ==
  LET q == IF At(t, p) = "-" THEN p + 1 ELSE p
      e == SpanIn(t, q, Digits)
  IN  IF e = q THEN JsonFail
      ELSE JsonOk([t |-> "number",
                   v |-> Num((IF q > p THEN -1 ELSE 1) * digitsValue(t, q, e - 1), 1)], e)

RECURSIVE jsonValue(_, _)
RECURSIVE jsonMembers(_, _, _)
RECURSIVE jsonElements(_, _, _)

\* the members of an object from position p on, after "{" or ","
jsonMembers(t, p, acc) ==
  LET k == jsonString(t, p)
      c == IF k.ok THEN skipWs(t, k.pos) ELSE 0
      v == IF k.ok /\ At(t, c) = ":" THEN jsonValue(t, c + 1) ELSE JsonFail
      n == IF v.ok THEN skipWs(t, v.pos) ELSE 0
  IN  IF ~v.ok THEN JsonFail
      ELSE IF At(t, n) = ","
      THEN jsonMembers(t, skipWs(t, n + 1), (k.val.v :> v.val) @@ acc)
      ELSE IF At(t, n) = "}"
      THEN JsonOk([t |-> "object", v |-> (k.val.v :> v.val) @@ acc], n + 1)
      ELSE JsonFail

\* the elements of an array from position p on, after "[" or ","
jsonElements(t, p, acc) ==
  LET v == jsonValue(t, p)
      n == IF v.ok THEN skipWs(t, v.pos) ELSE 0
  IN  IF ~v.ok THEN JsonFail
      ELSE IF At(t, n) = ","
      THEN jsonElements(t, n + 1, Append(acc, v.val))
      ELSE IF At(t, n) = "]"
      THEN JsonOk([t |-> "array", v |-> Append(acc, v.val)], n + 1)
      ELSE JsonFail

jsonValue(t, p) ==
  LET q == skipWs(t, p)
  IN  IF At(t, q) = "{"
      THEN IF At(t, skipWs(t, q + 1)) = "}"
           THEN JsonOk([t |-> "object", v |-> EmptyObj], skipWs(t, q + 1) + 1)
           ELSE jsonMembers(t, skipWs(t, q + 1), EmptyObj)
      ELSE IF At(t, q) = "["
      THEN IF At(t, skipWs(t, q + 1)) = "]"
           THEN JsonOk([t |-> "array", v |-> <<>>], skipWs(t, q + 1) + 1)
           ELSE jsonElements(t, q + 1, <<>>)
      ELSE IF At(t, q) = "\"" THEN jsonString(t, q)
      ELSE jsonNumber(t, q)

\* JSON.parse(text): [thrown, value]
JSONparse(t) ==
  LET v == jsonValue(t, 1)
  IN  IF v.ok /\ skipWs(t, v.pos) > Len(t)
      THEN [thrown |-> "", value |-> v.val]
      ELSE [thrown |-> "SyntaxError"]

\* private ffprobe(...args): the call it hands to runCommandWithOutput
ffprobe(c, args) ==
  [command |-> c.ffprobeCommand, args |-> <<"-v", "error">> \o args, stream |-> "stdout"]

\* probe (later revision), given the text the adapter returned
probeJson(raw) == JSONparse(trim(raw))

(***************************************************************************)
(* getKeyframeTimestamps and the showinfo parsing of extractFrames.        *)
(***************************************************************************)
\* String.prototype.split(/\s+/)
RECURSIVE splitSpaces(_)
splitSpaces(t) ==
  IF SpanNotIn(t, 1, Whitespace) > Len(t) THEN <<t>>
  ELSE <<SubSeq(t, 1, SpanNotIn(t, 1, Whitespace) - 1)>>
       \o splitSpaces(SubSeq(t, SpanIn(t, SpanNotIn(t, 1, Whitespace), Whitespace), Len(t)))

\* +text: the whole trimmed text must be a number (0 for the empty text)
toNumber(t) ==
  LET u == trim(t)
      q == IF At(u, 1) \in {"-", "+"} THEN 2 ELSE 1
      e == SpanIn(u, q, Digits)
      f == IF At(u, e) = "." THEN SpanIn(u, e + 1, Digits) ELSE e
  IN  IF u = <<>> THEN Num(0, 1)
      ELSE IF f <= Len(u) THEN NaN
      ELSE parseFloatText(u)

\* nativeOrdering(a, b) < 0, for numbers that are not NaN
lessThan(a, b) == a.num * b.den < b.num * a.den

\* insert x into the ascending sequence q after the elements not greater than it
RECURSIVE insertOrdered(_, _)
insertOrdered(q, x) ==
  IF q = <<>> THEN <<x>>
  ELSE IF lessThan(x, Head(q)) THEN <<x>> \o q
  ELSE <<Head(q)>> \o insertOrdered(Tail(q), x)

\* a sort that leaves the elements in the order it received them
sortNumbersKeepsOrder(ns) == ns

\* Array.prototype.sort(nativeOrdering)
RECURSIVE sortNumbers(_)
sortNumbers(ns) ==
  IF ns = <<>> THEN <<>>
  ELSE insertOrdered(sortNumbers(SubSeq(ns, 1, Len(ns) - 1)), ns[Len(ns)])

\* getKeyframeTimestamps, given the text the adapter returned
keyframeTimestamps(raw) ==
  LET text == trim(raw)
      parts == splitSpaces(text)
  IN  IF text = <<>> THEN <<>>
      ELSE sortNumbers([i \in 1..Len(parts) |-> toNumber(parts[i])])

T_showinfo == <<"[", "P", "a", "r", "s", "e", "d", "_", "s", "h", "o", "w", "i", "n", "f", "o", "_">>

T_pts_time == <<"p", "t", "s", "_", "t", "i", "m", "e", ":">>

\* /\spts_time:\s*([0-9]+(?:\.[0-9]+)?)/ tried at position p of a line: the
\* start and the end of the group
ptsMatchAt(line, p) ==
  LET q == SpanIn(line, p + 1 + Len(T_pts_time), Whitespace)
      e == SpanIn(line, q, Digits)
      f == IF At(line, e) = "." /\ SpanIn(line, e + 1, Digits) > e + 1
           THEN SpanIn(line, e + 1, Digits) ELSE e
  IN  IF At(line, p) \in Whitespace /\ StandsAt(line, p + 1, T_pts_time) /\ e > q
      THEN [ok |-> TRUE, group |-> SubSeq(line, q, f - 1)]
      ELSE [ok |-> FALSE]

\* regexp.exec(line): the leftmost match
RECURSIVE ptsMatch(_, _)
ptsMatch(line, p) ==
  IF p > Len(line) THEN [ok |-> FALSE]
  ELSE IF ptsMatchAt(line, p).ok THEN ptsMatchAt(line, p)
  ELSE ptsMatch(line, p + 1)

\* the for loop without the test of the line's beginning
RECURSIVE showinfoFramesAnyLine(_)
showinfoFramesAnyLine(lines) ==
  IF lines = <<>> THEN <<>>
  ELSE (IF ptsMatch(Head(lines), 1).ok
        THEN <<[timestamp |-> toNumber(ptsMatch(Head(lines), 1).group)]>>
        ELSE <<>>)
       \o showinfoFramesAnyLine(Tail(lines))

\* the for loop over the lines of the transcoder's stderr output
RECURSIVE showinfoFrames(_)
showinfoFrames(lines) ==
  IF lines = <<>> THEN <<>>
  ELSE (IF StandsAt(Head(lines), 1, T_showinfo) /\ ptsMatch(Head(lines), 1).ok
        THEN <<[timestamp |-> toNumber(ptsMatch(Head(lines), 1).group)]>>
        ELSE <<>>)
       \o showinfoFrames(Tail(lines))

\* what extractFrames returns, given the stderr text the adapter returned
extractedFrames(out) == [frames |-> showinfoFrames(splitLines(out))]

(***************************************************************************)
(* The raw texts the execution adapter may return to a probe.              *)
(***************************************************************************)
ProbeLines ==
  <<<<"c", "o", "d", "e", "c", "_", "t", "y", "p", "e", "=", "v", "i", "d", "e", "o">>,
    <<"c", "o", "d", "e", "c", "_", "t", "y", "p", "e", "=", "a", "u", "d", "i", "o">>,
    <<"c", "o", "d", "e", "c", "_", "n", "a", "m", "e", "=", "h", "2", "6", "4">>,
    <<"c", "o", "d", "e", "c", "_", "n", "a", "m", "e", "=", "a", "=", "b">>,
    <<"w", "i", "d", "t", "h", "=", "1", "9", "2", "0">>,
    <<"h", "e", "i", "g", "h", "t", "=", "1", "0", "8", "0">>,
    <<"r", "_", "f", "r", "a", "m", "e", "_", "r", "a", "t", "e", "=", "3", "0", "0", "0", "0", "/", "1", "0", "0", "1">>,
    <<"d", "u", "r", "a", "t", "i", "o", "n", "=", "1", "2", ".", "5">>,
    <<"d", "u", "r", "a", "t", "i", "o", "n", "=", "N", "/", "A">>>>

\* the lines of ProbeLines whose index is in I, in the order of ProbeLines
RECURSIVE pickLines(_, _)
pickLines(I, k) ==
  IF k > Len(ProbeLines) THEN <<>>
  ELSE (IF k \in I THEN <<ProbeLines[k]>> ELSE <<>>) \o pickLines(I, k + 1)

\* texts joined by a line break
RECURSIVE joinLines(_)
joinLines(ts) ==
  IF ts = <<>> THEN <<>>
  ELSE IF Len(ts) = 1 THEN ts[1]
  ELSE ts[1] \o <<"\n">> \o joinLines(Tail(ts))

\* [NAME] lines [/NAME] as ffprobe prints it
SectionText(name, lines) ==
  joinLines(<<<<"[">> \o name \o <<"]">>>> \o lines \o <<<<"[", "/">> \o name \o <<"]">>>>)

SingleSectionTexts ==
  {SectionText(n, pickLines(I, 1)) : n \in {T_STREAM, T_FORMAT}, I \in SUBSET (1..Len(ProbeLines))}

SectionsFew ==
  {SectionText(T_STREAM, pickLines({1, 3, 5, 6, 7}, 1)),
   SectionText(T_STREAM, pickLines({2, 3}, 1)),
   SectionText(T_STREAM, pickLines({3}, 1)),
   SectionText(T_FORMAT, pickLines({8}, 1)),
   SectionText(T_FORMAT, pickLines({9}, 1))}

MultiSectionTexts == {joinLines(q) : q \in SeqsUpTo(SectionsFew, MaxSections)}

\* texts with no section marker at all
NoMarkerTexts ==
  {<<>>,
   <<"\n">>,
   <<"N", "/", "A">>,
   pickLines({8}, 1)[1],
   joinLines(pickLines({1, 5, 6, 7}, 1)),
   joinLines(pickLines({2, 3, 8}, 1)) \o <<"\n">>,
   <<"S", "T", "R", "E", "A", "M", "]">> \o pickLines({8}, 1)[1] \o <<"/", "S", "T", "R", "E", "A", "M", "]">>}

\* texts with markers that do not form a section, or with text around sections
OddTexts ==
  {<<"[", "S", "T", "R", "E", "A", "M", "]">>,
   <<"[", "S", "T", "R", "E", "A", "M", "]">> \o ProbeLines[2] \o <<"[", "/", "F", "O", "R", "M", "A", "T", "]">>,
   <<"[", "s", "t", "r", "e", "a", "m", "]">> \o ProbeLines[2] \o <<"[", "/", "s", "t", "r", "e", "a", "m", "]">>,
   <<"[", "S", "T", "R", "E", "A", "M", "]">> \o ProbeLines[1] \o <<"[", "x", "]">> \o ProbeLines[7] \o <<"[", "/", "S", "T", "R", "E", "A", "M", "]">>,
   <<"\n", " ">> \o SectionText(T_FORMAT, pickLines({8}, 1)) \o <<"\r", "\n">>,
   <<"w", "a", "r", "n", "i", "n", "g", " ">> \o SectionText(T_STREAM, pickLines({2, 3}, 1)),
   SectionText(T_STREAM, <<<<"c", "o", "d", "e", "c", "_", "t", "y", "p", "e">>, <<"c", "o", "d", "e", "c", "_", "n", "a", "m", "e", "=", "a", "a", "c">>>>),
   SectionText(T_STREAM, <<<<"c", "o", "d", "e", "c", "_", "t", "y", "p", "e", "=", "a", "u", "d", "i", "o">>, <<"c", "o", "d", "e", "c", "_", "n", "a", "m", "e">>>>),
   SectionText(T_STREAM, <<<<"c", "o", "d", "e", "c", "_", "t", "y", "p", "e", "=", "v", "i", "d", "e", "o">>, <<"r", "_", "f", "r", "a", "m", "e", "_", "r", "a", "t", "e", "=", "2", "5">>, <<"w", "i", "d", "t", "h", "=", "N", "/", "A">>>>),
   SectionText(T_STREAM, <<<<"c", "o", "d", "e", "c", "_", "t", "y", "p", "e", "=", "v", "i", "d", "e", "o">>, <<"r", "_", "f", "r", "a", "m", "e", "_", "r", "a", "t", "e", "=", "N", "/", "A">>>>),
   SectionText(<<"C", "H", "A", "P", "T", "E", "R">>, pickLines({8}, 1))}

\* the texts ffprobe may print for getKeyframeTimestamps
TimestampTokens == {<<"1", ".", "0">>, <<"3", ".", "5">>, <<"2", ".", "2">>, <<"1", "0">>}

KeyframeTexts ==
  {joinLines(q) \o <<"\n">> : q \in SeqsUpTo(TimestampTokens, MaxTimestamps)}
  \cup {<<>>, <<" ", "\n">>, <<"1", ".", "0", " ", "3", ".", "5", " ", "2", ".", "2">>, <<" ", " ", "3", ".", "5", " ", " ", "1", ".", "0">> \o <<"\r", "\n">>}

\* the lines the transcoder may print to stderr for extractFrames
StderrLines ==
  {<<"[", "P", "a", "r", "s", "e", "d", "_", "s", "h", "o", "w", "i", "n", "f", "o", "_",
     "1", " ", "@", " ", "0", "x", "1", "]", " ", "n", ":", "0", " ", "p", "t", "s", ":",
     "5", "1", "2", " ", "p", "t", "s", "_", "t", "i", "m", "e", ":", "0", ".", "5", " ",
     "p", "o", "s", ":", "4", "8">>,
   <<"[", "P", "a", "r", "s", "e", "d", "_", "s", "h", "o", "w", "i", "n", "f", "o", "_",
     "1", " ", "@", " ", "0", "x", "1", "]", " ", "n", ":", "1", " ", "p", "t", "s", ":",
     "0", " ", "p", "t", "s", "_", "t", "i", "m", "e", ":", " ", "2", " ", "p", "o", "s",
     ":", "9">>,
   <<"[", "P", "a", "r", "s", "e", "d", "_", "s", "h", "o", "w", "i", "n", "f", "o", "_",
     "1", " ", "@", " ", "0", "x", "1", "]", " ", "n", ":", "2", " ", "p", "t", "s", "_",
     "t", "i", "m", "e", ":", "1", ".", "2", "5">>,
   <<"[", "P", "a", "r", "s", "e", "d", "_", "s", "h", "o", "w", "i", "n", "f", "o", "_",
     "1", " ", "@", " ", "0", "x", "1", "]", " ", "c", "o", "n", "f", "i", "g", " ", "i",
     "n", " ", "t", "i", "m", "e", "_", "b", "a", "s", "e", ":", " ", "1", "/", "2", "5">>,
   <<"f", "r", "a", "m", "e", "=", "1", " ", "p", "t", "s", "_", "t", "i", "m", "e", ":",
     "9">>,
   <<" ", "[", "P", "a", "r", "s", "e", "d", "_", "s", "h", "o", "w", "i", "n", "f", "o",
     "_", "1", "]", " ", "p", "t", "s", "_", "t", "i", "m", "e", ":", "7">>}

StderrTexts == {joinLines(q) : q \in SeqsUpTo(StderrLines, MaxStderrLines)}

BracketedTexts == SingleSectionTexts \cup MultiSectionTexts \cup NoMarkerTexts \cup OddTexts

JsonEmptyText == <<"{", "}">>

JsonDocuments ==
  {JsonEmptyText,
   <<" ">> \o JsonEmptyText \o <<"\n">>,
   <<"{", " ", "}">>,
   <<"{", "\"", "s", "t", "r", "e", "a", "m", "s", "\"", ":", "[", "]", ",", "\"", "f",
     "o", "r", "m", "a", "t", "\"", ":", "{", "}", "}">>,
   <<"{", "\"", "s", "t", "r", "e", "a", "m", "s", "\"", ":", "[", "{", "\"", "c", "o",
     "d", "e", "c", "_", "t", "y", "p", "e", "\"", ":", "\"", "a", "u", "d", "i", "o",
     "\"", ",", "\"", "c", "o", "d", "e", "c", "_", "n", "a", "m", "e", "\"", ":", "\"",
     "a", "a", "c", "\"", ",", "\"", "c", "h", "a", "n", "n", "e", "l", "s", "\"", ":",
     "2", "}", "]", ",", "\"", "f", "o", "r", "m", "a", "t", "\"", ":", "{", "\"", "d",
     "u", "r", "a", "t", "i", "o", "n", "\"", ":", "\"", "1", "2", ".", "5", "\"", "}",
     "}">>,
   <<"{", "\"", "s", "t", "r", "e", "a", "m", "s", "\"", ":", " ", "[", "{", "\"", "c",
     "o", "d", "e", "c", "_", "t", "y", "p", "e", "\"", ":", " ", "\"", "v", "i", "d", "e",
     "o", "\"", ",", " ", "\"", "w", "i", "d", "t", "h", "\"", ":", " ", "1", "9", "2",
     "0", "}", "]", "}">>,
   <<"{", "\"", "s", "t", "r", "e", "a", "m", "s", "\"", ":", "[", "{", "\"", "c", "o",
     "d", "e", "c", "_", "t", "y", "p", "e", "\"", ":", "\"", "v", "i", "d", "e", "o",
     "\"", "}", ",", "{", "\"", "c", "o", "d", "e", "c", "_", "t", "y", "p", "e", "\"",
     ":", "\"", "a", "u", "d", "i", "o", "\"", "}", "]", "}">>,
   <<"{", "\"", "f", "o", "r", "m", "a", "t", "\"", ":", "{", "\"", "d", "u", "r", "a",
     "t", "i", "o", "n", "\"", ":", "\"", "1", "2", ".", "5", "\"", "}", "}">>}

\* texts that are no JSON document
JsonBroken ==
  {<<>>,
   <<"{">>,
   <<"{", "\"", "s", "t", "r", "e", "a", "m", "s", "\"", ":", "[", "}">>,
   <<"[", "S", "T", "R", "E", "A", "M", "]", "[", "/", "S", "T", "R", "E", "A", "M", "]">>}

JsonTexts == JsonDocuments \cup JsonBroken

(***************************************************************************)
(* The requests the operations are called with: values of the option types *)
(* (ConvertOpts, ExtractFrameOpts, ...), including the ones the static     *)
(* types do not exclude at run time (both duration and end, an unknown     *)
(* codec or mode tag).                                                     *)
(***************************************************************************)
LogLevels == {"error", "warning"}

InputSet ==
  {[file |-> "in.mkv"] @@ Field("copyTimestamps", c) @@ Field("start", s)
     @@ Field("duration", d) @@ Field("end", e) :
     c \in Opt({TRUE}), s \in Opt({250}), d \in Opt({1500}), e \in Opt({2000})}

InputFew == {[file |-> "in.mkv"], [file |-> "in.mkv", start |-> 250, duration |-> 1500]}

MapEntries ==
  {[input |-> 0],
   [input |-> 0, type |-> "a", stream |-> 1, optional |-> TRUE],
   [exclude |-> TRUE, input |-> 1, type |-> "v"],
   [exclude |-> FALSE, input |-> 1, stream |-> 0]}

MapSet == SeqsUpTo(MapEntries, MaxMapLen)

ResizeSet ==
  {EmptyObj, [width |-> 640], [height |-> 480], [width |-> 640, height |-> 480]}

VideoCommonAll ==
  {Field("fps", f) @@ Field("resize", r) @@ Field("filter", g) @@ Field("vsync", v) :
     f \in Opt({30}), r \in Opt(ResizeSet), g \in Opt({"hflip"}), v \in Opt({"cfr"})}

VideoCommonFew ==
  {EmptyObj, [fps |-> 30, resize |-> [width |-> 640], filter |-> "hflip", vsync |-> "cfr"]}

Vp9Tunes ==
  {EmptyObj,
   [deadline |-> "good", cpuUsed |-> 2, multithreading |-> TRUE],
   [deadline |-> "realtime", cpuUsed |-> -4],
   [multithreading |-> FALSE]}

Vp9Modes ==
  {[mode |-> "average-bitrate", bitrate |-> Box("number", 2000000)],
   [mode |-> "constant-quality", crf |-> 30],
   [mode |-> "constrained-quality", crf |-> 31, bitrate |-> Box("string", "2M")],
   [mode |-> "constrained-quality", minBitrate |-> Box("string", "1M"),
    targetBitrate |-> Box("string", "2M"), maxBitrate |-> Box("string", "3M")],
   [mode |-> "constant-bitrate", bitrate |-> Box("string", "4M")],
   [mode |-> "lossless"],
   [mode |-> "two-pass", bitrate |-> Box("string", "5M")]}

VideoSet ==
  {Box("boolean", TRUE), Box("boolean", FALSE)}
  \cup {[codec |-> "copy"] @@ Field("filter", g) : g \in Opt({"hflip"})}
  \cup {[codec |-> "libx264", preset |-> "fast", crf |-> 23] @@ c : c \in VideoCommonAll}
  \cup {[codec |-> "libx265"] @@ c : c \in VideoCommonFew}
  \cup {[codec |-> "libtheora", quality |-> 7] @@ c : c \in VideoCommonFew}
  \cup {[codec |-> "gif", loop |-> l] @@ c :
          l \in {Box("boolean", TRUE), Box("boolean", FALSE), Box("number", 3)},
          c \in VideoCommonFew}
  \cup {[codec |-> "vp9"] @@ t @@ m @@ c :
          t \in Vp9Tunes, m \in Vp9Modes, c \in VideoCommonFew}

VideoFew ==
  {Box("boolean", FALSE),
   [codec |-> "libx264", preset |-> "fast", crf |-> 23, fps |-> 30, filter |-> "hflip"]}

AudioCommonFew ==
  {EmptyObj, [samplingRate |-> 44100, downmix |-> TRUE, filter |-> "volume=2"],
   [samplingRate |-> 0, downmix |-> FALSE]}

AudioSet ==
  {Box("boolean", TRUE), Box("boolean", FALSE)}
  \cup {a @@ c :
          a \in {[codec |-> "aac"], [codec |-> "flac"], [codec |-> "libopus"],
                 [codec |-> "copy"], [codec |-> "ac3"],
                 [codec |-> "libmp3lame", quality |-> 2],
                 [codec |-> "libvorbis", quality |-> -1],
                 [codec |-> "pcm", signedness |-> "s", bits |-> 16, endianness |-> "le"],
                 [codec |-> "pcm", signedness |-> "s", bits |-> 24, endianness |-> "be"],
                 [codec |-> "pcm", signedness |-> "u", bits |-> 8]},
          c \in AudioCommonFew}

AudioFew == {[codec |-> "aac", samplingRate |-> 44100, downmix |-> TRUE]}

OutputTrimSet ==
  {[file |-> "out.mp4"] @@ Field("format", f) @@ Field("start", s) @@ Field("duration", d) :
     f \in Opt({"mp4"}), s \in Opt({0}), d \in Opt({10000})}

OutputSet ==
  {o @@ Field("movflags", m) :
     o \in OutputTrimSet,
     m \in Opt({<<>>, <<"faststart">>, <<"frag_keyframe", "empty_moov">>})}

OutputFew ==
  {[file |-> "out.mp4"],
   [file |-> "out.mp4", format |-> "mp4", start |-> 0, duration |-> 10000]}

MkConvertOpts(t, i, m, md, v, a, out) ==
  [input |-> i, metadata |-> md, output |-> out]
  @@ Field("threads", t) @@ Field("map", m) @@ Field("video", v) @@ Field("audio", a)

ConvertOptsSet ==
  \* every input and output trim
  {MkConvertOpts(t, i, <<>>, md, v, a, out) :
     t \in Opt({2}), i \in InputSet, md \in BOOLEAN, v \in Opt(VideoFew),
     a \in Opt(AudioFew), out \in OutputTrimSet}
  \* every video spec
  \cup {MkConvertOpts(<<>>, i, <<>>, TRUE, v, a, out) :
          i \in InputFew, v \in Opt(VideoSet), a \in Opt({Box("boolean", TRUE)}),
          out \in OutputFew}
  \* every audio spec
  \cup {MkConvertOpts(<<>>, i, <<>>, TRUE, v, a, out) :
          i \in InputFew, v \in Opt({Box("boolean", TRUE)}), a \in Opt(AudioSet),
          out \in OutputFew}
  \* every map list
  \cup {MkConvertOpts(<<>>, [file |-> "in.mkv"], m, md, v, a, [file |-> "out.mp4"]) :
          m \in Opt(MapSet), md \in BOOLEAN, v \in Opt(VideoFew), a \in Opt(AudioFew)}
  \* every output
  \cup {MkConvertOpts(t, [file |-> "in.mkv"], <<>>, TRUE, v, a, out) :
          t \in Opt({2}), v \in Opt(VideoFew), a \in Opt(AudioFew), out \in OutputSet}

OutputTargets == {Box("string", "out.jpg"), [path |-> "out.bin", format |-> "image2"]}

ExtractFrameOptsSet ==
  {[input |-> "in.mkv", output |-> out] @@ Field("quality", q) @@ Field("scaleWidth", w)
     @@ Field("timestamp", ts) :
     out \in OutputTargets, q \in Opt({2}), w \in Opt({320}), ts \in Opt({0, 12345})}

ExtractFramesOptsSet ==
  {[input |-> "in.mkv", output |-> out] @@ Field("threads", t) @@ Field("fps", f)
     @@ Field("quality", q) @@ Field("scaleWidth", w) @@ Field("startTime", ts) :
     out \in OutputTargets, t \in Opt({2}),
     f \in Opt({Box("number", 5), Box("array", <<30000, 1001>>)}),
     q \in Opt({2}), w \in Opt({320}), ts \in Opt({12345})}

ConcatOptsSet ==
  {[filesListFile |-> "list.txt", output |-> out] : out \in OutputTargets}

WithLogLevel(S) == {o @@ Field("logLevel", l) : o \in S, l \in Opt({"warning"})}

Requests ==
  {[op |-> "buildConvertArgs", opts |-> o] : o \in ConvertOptsSet}
  \cup {[op |-> "convert", opts |-> o] : o \in WithLogLevel(ConvertOptsSet)}
  \cup {[op |-> "buildExtractFrameArgs", opts |-> o] : o \in ExtractFrameOptsSet}
  \cup {[op |-> "extractFrame", opts |-> o] : o \in WithLogLevel(ExtractFrameOptsSet)}
  \cup {[op |-> "extractFrames", opts |-> o, raw |-> <<>>] : o \in ExtractFramesOptsSet}
  \cup {[op |-> "extractFrames", opts |-> [input |-> "in.mkv", output |-> out], raw |-> t] :
          out \in OutputTargets, t \in StderrTexts}
  \cup {[op |-> "getKeyframeTimestamps", file |-> "in.mkv", raw |-> t] : t \in KeyframeTexts}
  \cup {[op |-> "concat", opts |-> o] : o \in WithLogLevel(ConcatOptsSet)}
  \cup {[op |-> "probeSections", file |-> "in.mkv", raw |-> t] : t \in BracketedTexts}
  \cup {[op |-> "probe", file |-> "in.mkv", raw |-> t] : t \in JsonTexts}

(***************************************************************************)
(* The state machine: an Ff instance is constructed, one operation is      *)
(* called with a request, it hands at most one command to the execution    *)
(* adapter (ran) and returns or throws (ret).                              *)
(***************************************************************************)
NoRet == [status |-> "pending"]

Returned(v) == [status |-> "returned", value |-> v]

Threw(err) == [status |-> "thrown", error |-> err]

Init ==
  /\ cfg \in {createCfg(EmptyObj), createCfg([logLevel |-> "quiet"])}
  /\ req \in Requests
  /\ pc = "idle"
  /\ ran = <<>>
  /\ ret = NoRet

BuildConvertArgs ==
  /\ pc = "idle" /\ req.op = "buildConvertArgs"
  /\ ret' = IF buildConvertArgs(req.opts).thrown # ""
            THEN Threw(buildConvertArgs(req.opts).thrown)
            ELSE Returned(buildConvertArgs(req.opts).args)
  /\ pc' = "done"
  /\ UNCHANGED <<cfg, req, ran>>

Convert ==
  /\ pc = "idle" /\ req.op = "convert"
  /\ IF buildConvertArgs(req.opts).thrown # ""
     THEN /\ ret' = Threw(buildConvertArgs(req.opts).thrown)
          /\ ran' = ran
     ELSE /\ ran' = Append(ran, ffmpeg(cfg, req.opts, buildConvertArgs(req.opts).args))
          /\ ret' = Returned(<<>>)
  /\ pc' = "done"
  /\ UNCHANGED <<cfg, req>>

BuildExtractFrameArgs ==
  /\ pc = "idle" /\ req.op = "buildExtractFrameArgs"
  /\ ret' = Returned(buildExtractFrameArgs(req.opts))
  /\ pc' = "done"
  /\ UNCHANGED <<cfg, req, ran>>

ExtractFrame ==
  /\ pc = "idle" /\ req.op = "extractFrame"
  /\ ran' = Append(ran, ffmpeg(cfg, req.opts, buildExtractFrameArgs(req.opts)))
  /\ ret' = Returned(<<>>)
  /\ pc' = "done"
  /\ UNCHANGED <<cfg, req>>

ExtractFrames ==
  /\ pc = "idle" /\ req.op = "extractFrames"
  /\ ran' = Append(ran, [command |-> cfg.ffmpegCommand,
                         args |-> extractFramesArgs(req.opts),
                         stream |-> "stderr"])
  /\ ret' = Returned(extractedFrames(req.raw))
  /\ pc' = "done"
  /\ UNCHANGED <<cfg, req>>

GetKeyframeTimestamps ==
  /\ pc = "idle" /\ req.op = "getKeyframeTimestamps"
  /\ ran' = Append(ran, ffprobe(cfg, <<"-select_streams", "v", "-skip_frame", "nokey",
                                       "-show_entries", "frame=pkt_pts_time", "-of",
                                       "default=noprint_wrappers=1:nokey=1", req.file>>))
  /\ ret' = Returned(keyframeTimestamps(req.raw))
  /\ pc' = "done"
  /\ UNCHANGED <<cfg, req>>

Concat ==
  /\ pc = "idle" /\ req.op = "concat"
  /\ ran' = Append(ran, ffmpeg(cfg, req.opts, concatArgs(req.opts)))
  /\ ret' = Returned(<<>>)
  /\ pc' = "done"
  /\ UNCHANGED <<cfg, req>>

\* probe of the first revision
ProbeSections ==
  /\ pc = "idle" /\ req.op = "probeSections"
  /\ ran' = Append(ran, [command |-> cfg.ffprobeCommand,
                         args |-> <<"-v", "error", "-show_entries",
                                    "stream=codec_type,codec_name,width,height,r_frame_rate:format=duration",
                                    "-ignore_chapters", "1", req.file>>,
                         stream |-> "stdout"])
  /\ ret' = IF probeSections(req.raw).thrown # ""
            THEN Threw(probeSections(req.raw).thrown)
            ELSE Returned(probeSections(req.raw).properties)
  /\ pc' = "done"
  /\ UNCHANGED <<cfg, req>>

\* probe of the later revision
Probe ==
  /\ pc = "idle" /\ req.op = "probe"
  /\ ran' = Append(ran, ffprobe(cfg, <<"-print_format", "json", "-show_streams",
                                       "-show_format", req.file>>))
  /\ ret' = IF probeJson(req.raw).thrown # ""
            THEN Threw(probeJson(req.raw).thrown)
            ELSE Returned(probeJson(req.raw).value)
  /\ pc' = "done"
  /\ UNCHANGED <<cfg, req>>

Next ==
  \/ ProbeSections
  \/ Probe
  \/ GetKeyframeTimestamps
  \/ BuildConvertArgs
  \/ Convert
  \/ BuildExtractFrameArgs
  \/ ExtractFrame
  \/ ExtractFrames
  \/ Concat

Spec == Init /\ [][Next]_vars

(***************************************************************************)
(* Vocabulary of the properties.                                           *)
(***************************************************************************)
Done == pc = "done"

ConvertCall == req.op \in {"buildConvertArgs", "convert"}

\* the argument sequence buildConvertArgs produced in a finished call
ConvertArgs ==
  IF req.op = "buildConvertArgs" THEN ret.value
  ELSE SubSeq(ran[1].args, 6, Len(ran[1].args))

ConvertReturned == Done /\ ConvertCall /\ ret.status = "returned"

\* the argument sequence a finished operation built (without ffmpeg's prefix
\* for the two build* operations, which hand nothing to the adapter)
BuiltArgs ==
  IF req.op \in {"buildConvertArgs", "buildExtractFrameArgs"} THEN ret.value
  ELSE ran[1].args

\* the first position of token t in a, 0 when it does not occur
FirstPos(a, t) ==
  IF \E k \in 1..Len(a) : a[k] = t
  THEN CHOOSE k \in 1..Len(a) : a[k] = t /\ \A j \in 1..(k - 1) : a[j] # t
  ELSE 0

\* the flags of F in a, each with the token after it, in the order of a
RECURSIVE FlagPairsFrom(_, _, _)
FlagPairsFrom(a, k, F) ==
  IF k > Len(a) THEN <<>>
  ELSE IF a[k] \in F /\ k < Len(a)
  THEN <<a[k], a[k + 1]>> \o FlagPairsFrom(a, k + 2, F)
  ELSE FlagPairsFrom(a, k + 1, F)

FlagPairs(a, F) == FlagPairsFrom(a, 1, F)

KnownVideoCodecs == {"copy", "libtheora", "libx264", "vp9", "gif"}

KnownAudioCodecs ==
  {"aac", "flac", "libmp3lame", "libopus", "libvorbis", "pcm", "copy"}

KnownVp9Modes ==
  {"average-bitrate", "constant-quality", "constrained-quality", "constant-bitrate",
   "lossless"}

IsObject(o, key) == Has(o, key) /\ ~IsBoolean(o[key])

UnknownVideoCodec == IsObject(req.opts, "video") /\ req.opts.video.codec \notin KnownVideoCodecs

UnknownAudioCodec == IsObject(req.opts, "audio") /\ req.opts.audio.codec \notin KnownAudioCodecs

IsVp9 == IsObject(req.opts, "video") /\ req.opts.video.codec = "vp9"

UnknownVp9Mode == IsVp9 /\ req.opts.video.mode \notin KnownVp9Modes

(***************************************************************************)
(* C1: a convert spec whose input sets both duration and end is rejected   *)
(* with InvalidSpec and produces no argument sequence; no produced         *)
(* sequence holds both -t and -to before -i.                               *)
(***************************************************************************)
C1_DurationAndEndRejected ==
  (Done /\ ConvertCall)
    => /\ (Has(req.opts.input, "duration") /\ Has(req.opts.input, "end"))
            => (ret.status = "thrown" /\ ret.error = "InvalidSpec" /\ ran = <<>>)
       /\ ret.status = "returned"
            => LET before == SubSeq(ConvertArgs, 1, FirstPos(ConvertArgs, "-i") - 1)
               IN  ~(FirstPos(before, "-t") > 0 /\ FirstPos(before, "-to") > 0)

(***************************************************************************)
(* C2: a convert spec with an unknown video codec tag, audio codec tag or  *)
(* vp9 bitrate-mode tag makes buildConvertArgs fail with an error; the     *)
(* unknown tag is never passed on in an argument sequence.                 *)
(***************************************************************************)
C2_UnknownVariantRejected ==
  (Done /\ ConvertCall /\ (UnknownVideoCodec \/ UnknownAudioCodec \/ UnknownVp9Mode))
    => (ret.status = "thrown" /\ ran = <<>>)

(***************************************************************************)
(* C3: with an input trim and an output trim both set, the input trim      *)
(* tokens are exactly the trim tokens before "-i <input file>", and the    *)
(* output trim tokens are exactly the trim tokens after that pair and      *)
(* before the output file, which is the last token.                        *)
(***************************************************************************)
TrimFlags == {"-ss", "-t", "-to"}

HasInputTrim ==
  Has(req.opts.input, "start") \/ Has(req.opts.input, "duration") \/ Has(req.opts.input, "end")

HasOutputTrim == Has(req.opts.output, "start") \/ Has(req.opts.output, "duration")

C3_InputTrimTokens ==
  (IF Has(req.opts.input, "start") THEN <<"-ss", toFixed3(req.opts.input.start)>> ELSE <<>>)
  \o (IF Has(req.opts.input, "duration") THEN <<"-t", toFixed3(req.opts.input.duration)>> ELSE <<>>)
  \o (IF Has(req.opts.input, "end") THEN <<"-to", toFixed3(req.opts.input.end)>> ELSE <<>>)

C3_OutputTrimTokens ==
  (IF Has(req.opts.output, "start") THEN <<"-ss", toFixed3(req.opts.output.start)>> ELSE <<>>)
  \o (IF Has(req.opts.output, "duration") THEN <<"-t", toFixed3(req.opts.output.duration)>> ELSE <<>>)

C3_TrimOrdering ==
  (ConvertReturned /\ HasInputTrim /\ HasOutputTrim)
    => LET a == ConvertArgs
           i == FirstPos(a, "-i")
       IN  /\ i > 0
           /\ a[i + 1] = req.opts.input.file
           /\ a[Len(a)] = req.opts.output.file
           /\ FlagPairs(SubSeq(a, 1, i - 1), TrimFlags) = C3_InputTrimTokens
           /\ FlagPairs(SubSeq(a, i + 2, Len(a) - 1), TrimFlags) = C3_OutputTrimTokens
           /\ FlagPairs(SubSeq(a, Len(a), Len(a)), TrimFlags) = <<>>

C3_Witness ==
  /\ ConvertReturned /\ req.op = "convert"
  /\ Has(req.opts.input, "start") /\ Has(req.opts.input, "end")
  /\ ~Has(req.opts.input, "duration")
  /\ Has(req.opts.output, "start") /\ Has(req.opts.output, "duration")
  /\ Has(req.opts, "threads")

(***************************************************************************)
(* C4: every argument list handed to the execution adapter for the         *)
(* transcoder begins with -hide_banner, -nostdin, -y, -loglevel, <level>,  *)
(* with nothing before or between them.                                    *)
(***************************************************************************)
AllLogLevels ==
  {"quiet", "panic", "fatal", "error", "warning", "info", "verbose", "debug", "trace"}

C4_GlobalFlagsPrefix ==
  \A k \in 1..Len(ran) :
    ran[k].command = cfg.ffmpegCommand
      => /\ Len(ran[k].args) >= 5
         /\ SubSeq(ran[k].args, 1, 4) = <<"-hide_banner", "-nostdin", "-y", "-loglevel">>
         /\ ran[k].args[5] \in AllLogLevels

(***************************************************************************)
(* C5: the last token of every built argument sequence is the output path, *)
(* and when an output format is given, the pair -f <format> stands after   *)
(* the input and before that last token.                                   *)
(***************************************************************************)
\* the operations that build an ffmpeg argument list with an output path
ArgsCall ==
  req.op \in {"buildConvertArgs", "convert", "buildExtractFrameArgs",
              "extractFrame", "extractFrames", "concat"}

OutputPath ==
  IF ConvertCall THEN req.opts.output.file
  ELSE IF IsString(req.opts.output) THEN req.opts.output.value
  ELSE req.opts.output.path

OutputFormatGiven ==
  IF ConvertCall THEN Has(req.opts.output, "format") ELSE ~IsString(req.opts.output)

C5_OutputPathLast ==
  (Done /\ ArgsCall /\ ret.status = "returned")
    => LET a == BuiltArgs
       IN  /\ Len(a) > 0
           /\ a[Len(a)] = OutputPath
           /\ OutputFormatGiven
                => \E j \in (FirstPos(a, "-i") + 2)..(Len(a) - 2) :
                     /\ a[j] = "-f"
                     /\ a[j + 1] = req.opts.output.format

C5_Witness ==
  /\ Done /\ req.op = "convert" /\ ret.status = "returned"
  /\ Has(req.opts.output, "format") /\ Has(req.opts.output, "duration")
  /\ Has(req.opts.output, "movflags")

(***************************************************************************)
(* C6: for a vp9 video spec, the rate-control flags (-b:v, -minrate,       *)
(* -maxrate, -crf, -lossless) in the produced sequence are exactly the     *)
(* ones of the spec's bitrate mode, in the documented order.               *)
(***************************************************************************)
RateFlags == {"-b:v", "-minrate", "-maxrate", "-crf", "-lossless"}

C6_ExpectedRateFlags ==
  LET v == req.opts.video
  IN  CASE v.mode = "average-bitrate" -> <<"-b:v", Str(v.bitrate)>>
        [] v.mode = "constant-quality" -> <<"-crf", ToString(v.crf), "-b:v", "0">>
        [] v.mode = "constrained-quality" /\ Has(v, "crf") ->
             <<"-crf", ToString(v.crf), "-b:v", Str(v.bitrate)>>
        [] v.mode = "constrained-quality" /\ ~Has(v, "crf") ->
             <<"-minrate", Str(v.minBitrate), "-b:v", Str(v.targetBitrate),
               "-maxrate", Str(v.maxBitrate)>>
        [] v.mode = "constant-bitrate" ->
             <<"-minrate", Str(v.bitrate), "-b:v", Str(v.bitrate),
               "-maxrate", Str(v.bitrate)>>
        [] v.mode = "lossless" -> <<"-lossless", "1">>

C6_Vp9RateFlags ==
  (Done /\ ConvertCall /\ IsVp9 /\ ~UnknownVp9Mode)
    => /\ ret.status = "returned"
       /\ FlagPairs(ConvertArgs, RateFlags) = C6_ExpectedRateFlags

C6_Witness ==
  /\ ConvertReturned /\ IsVp9
  /\ req.opts.video.mode = "constrained-quality"
  /\ ~Has(req.opts.video, "crf")
  /\ Has(req.opts.video, "deadline")

(***************************************************************************)
(* C7: for a video codec object, at most one -filter:v flag is emitted;    *)
(* its value is the comma-joined list of the present fragments in the      *)
(* order fps, scale (-2 for a missing dimension), user filter; none is     *)
(* emitted when all three are absent.                                      *)
(***************************************************************************)
C7_Dimension(resize, key) == IF Has(resize, key) THEN ToString(resize[key]) ELSE "-2"

C7_Fragments ==
  LET v == req.opts.video
  IN  (IF Has(v, "fps") THEN <<"fps=" \o ToString(v.fps)>> ELSE <<>>)
      \o (IF Has(v, "resize")
          THEN <<"scale=" \o C7_Dimension(v.resize, "width") \o ":"
                 \o C7_Dimension(v.resize, "height")>>
          ELSE <<>>)
      \o (IF Has(v, "filter") THEN <<v.filter>> ELSE <<>>)

C7_SingleVideoFilter ==
  (ConvertReturned /\ IsObject(req.opts, "video"))
    => FlagPairs(ConvertArgs, {"-filter:v"})
         = IF C7_Fragments = <<>> THEN <<>>
           ELSE <<"-filter:v", join(C7_Fragments, ",")>>

C7_Witness ==
  /\ ConvertReturned /\ IsObject(req.opts, "video")
  /\ Has(req.opts.video, "fps") /\ Has(req.opts.video, "filter")
  /\ Has(req.opts.video, "resize")
  /\ Has(req.opts.video.resize, "height") /\ ~Has(req.opts.video.resize, "width")

(***************************************************************************)
(* Vocabulary of the probe properties.                                     *)
(***************************************************************************)
ProbeSectionsDone == Done /\ req.op = "probeSections"

ProbeJsonDone == Done /\ req.op = "probe"

\* the raw text is a sequence of well-formed [NAME] key=value... [/NAME] sections
WellFormedSections == req.raw \in SingleSectionTexts \cup MultiSectionTexts

NoSectionMarker == \A k \in 1..Len(req.raw) : req.raw[k] # "["

\* a line cut at its first "=": the key before it, the whole remainder after it
KeyOfLine(line) == SubSeq(line, 1, SpanNotIn(line, 1, {"="}) - 1)

RemainderOfLine(line) == SubSeq(line, SpanNotIn(line, 1, {"="}) + 1, Len(line))

(***************************************************************************)
(* C8: in the bracketed-section parser every key=value line is split on    *)
(* its first "=" only, so the codec a single-section text yields is the    *)
(* whole remainder of its last codec_name line, further "=" included.      *)
(***************************************************************************)
C8_SplitOnFirstEquals ==
  (ProbeSectionsDone /\ req.raw \in SingleSectionTexts /\ ret.status = "returned")
    => LET lines == splitLines(req.raw)
       IN  \A field \in {"audioCodec", "videoCodec"} :
             Has(ret.value, field)
               => \E i \in 1..Len(lines) :
                    /\ KeyOfLine(lines[i]) = K_codec_name
                    /\ \A j \in (i + 1)..Len(lines) : KeyOfLine(lines[j]) # K_codec_name
                    /\ ret.value[field] = RemainderOfLine(lines[i])

(***************************************************************************)
(* C9: for a raw text that matches its format's grammar, a missing field   *)
(* never makes the probe throw.                                            *)
(***************************************************************************)
C9_MissingFieldNeverThrows ==
  /\ (ProbeSectionsDone /\ WellFormedSections) => ret.status = "returned"
  /\ (ProbeJsonDone /\ req.raw \in JsonDocuments) => ret.status = "returned"

(***************************************************************************)
(* C10: a probe whose raw output is {} (JSON format), or a text with no    *)
(* section marker, the empty text included (bracketed format), returns a   *)
(* result with no video field, no audio field and no duration.             *)
(***************************************************************************)
C10_EmptyProbe ==
  /\ (ProbeSectionsDone /\ NoSectionMarker)
       => /\ ret.status = "returned"
          /\ DOMAIN ret.value
               \cap {"videoCodec", "width", "height", "fps", "audioCodec", "duration"} = {}
  /\ (ProbeJsonDone /\ trim(req.raw) = JsonEmptyText)
       => /\ ret.status = "returned"
          /\ ret.value.t = "object"
          /\ DOMAIN ret.value.v = {}

C10_Witness ==
  /\ ProbeSectionsDone /\ NoSectionMarker
  /\ \E k \in 1..Len(req.raw) : req.raw[k] = "="
  /\ \E k \in 1..Len(req.raw) : req.raw[k] = "]"

(***************************************************************************)
(* C11: getKeyframeTimestamps returns, for a raw response that is a        *)
(* whitespace-separated list of numbers (with any leading or trailing      *)
(* whitespace), a sequence in ascending numeric order that is a            *)
(* permutation of the input timestamps (same multiset, same length); for   *)
(* an empty or whitespace-only response it returns the empty sequence and  *)
(* does not fail.                                                          *)
(***************************************************************************)
KeyframesDone == Done /\ req.op = "getKeyframeTimestamps"

\* the positions of t where a run of non-whitespace characters begins
TokenStarts(t) ==
  {k \in 1..Len(t) : t[k] \notin Whitespace /\ (k = 1 \/ t[k - 1] \in Whitespace)}

\* the run of non-whitespace characters of t that begins at k
TokenFrom(t, k) == SubSeq(t, k, SpanNotIn(t, k, Whitespace) - 1)

\* digits, optionally followed by a point and digits
IsNumberText(w) ==
  /\ w # <<>>
  /\ \A k \in 1..Len(w) : w[k] \in Digits \cup {"."}
  /\ w[1] \in Digits /\ w[Len(w)] \in Digits
  /\ Cardinality({k \in 1..Len(w) : w[k] = "."}) <= 1

NumberList(t) == \A k \in TokenStarts(t) : IsNumberText(TokenFrom(t, k))

WhitespaceOnly(t) == \A k \in 1..Len(t) : t[k] \in Whitespace

SameNumber(a, b) == a.num * b.den = b.num * a.den

C11_SortedPermutation ==
  KeyframesDone
    => /\ ret.status = "returned"
       /\ WhitespaceOnly(req.raw) => ret.value = <<>>
       /\ (NumberList(req.raw) /\ ~WhitespaceOnly(req.raw))
            => LET v == ret.value
                   S == TokenStarts(req.raw)
                   in(k) == parseFloatText(TokenFrom(req.raw, k))
               IN  /\ Len(v) = Cardinality(S)
                   /\ \A i \in 1..Len(v) : v[i].kind = "number"
                   /\ \A i, j \in 1..Len(v) :
                        i < j => v[i].num * v[j].den <= v[j].num * v[i].den
                   /\ \A k \in S :
                        Cardinality({i \in 1..Len(v) : SameNumber(v[i], in(k))})
                          = Cardinality({j \in S : SameNumber(in(j), in(k))})

\* C11: a response of three timestamps, not in ascending order, with a
\* repeated one or not, was sorted
C11_Witness ==
  /\ KeyframesDone /\ NumberList(req.raw)
  /\ Cardinality(TokenStarts(req.raw)) = 3
  /\ \E j, k \in TokenStarts(req.raw) :
       /\ j < k
       /\ LET a == parseFloatText(TokenFrom(req.raw, j))
              b == parseFloatText(TokenFrom(req.raw, k))
          IN  b.num * a.den < a.num * b.den
  /\ Len(ret.value) = 3

(***************************************************************************)
(* C12: for an audio spec with codec pcm the token after -c:a is pcm_ +    *)
(* signedness + bits + endianness, the endianness part being empty when    *)
(* none is given (s/16/le gives pcm_s16le, u/8 gives pcm_u8); the tag pcm  *)
(* itself is never the codec token; for every other audio codec the token  *)
(* is the codec tag.                                                       *)
(***************************************************************************)
AudioObjectCall == ConvertCall /\ Has(req.opts, "audio") /\ ~IsBoolean(req.opts.audio)

BitsText == [b \in {8, 16, 24, 32, 64} |-> CASE b = 8 -> "8" [] b = 16 -> "16"
                                             [] b = 24 -> "24" [] b = 32 -> "32"
                                             [] b = 64 -> "64"]

C12_ExpectedCodecToken ==
  LET a == req.opts.audio
  IN  IF a.codec = "pcm"
      THEN IF "endianness" \in DOMAIN a
           THEN "pcm_" \o a.signedness \o BitsText[a.bits] \o a.endianness
           ELSE "pcm_" \o a.signedness \o BitsText[a.bits]
      ELSE a.codec

C12_PcmCodecToken ==
  (Done /\ AudioObjectCall /\ ret.status = "returned")
    => /\ FlagPairs(ConvertArgs, {"-c:a"}) = <<"-c:a", C12_ExpectedCodecToken>>
       /\ \A k \in 2..Len(ConvertArgs) :
            ConvertArgs[k - 1] = "-c:a" => ConvertArgs[k] # "pcm"
       /\ (req.opts.audio = [codec |-> "pcm", signedness |-> "s", bits |-> 16,
                             endianness |-> "le"])
            => FlagPairs(ConvertArgs, {"-c:a"}) = <<"-c:a", "pcm_s16le">>
       /\ (req.opts.audio = [codec |-> "pcm", signedness |-> "u", bits |-> 8])
            => FlagPairs(ConvertArgs, {"-c:a"}) = <<"-c:a", "pcm_u8">>

\* C12: a convert call with a pcm audio spec without endianness returned
C12_Witness ==
  /\ Done /\ AudioObjectCall /\ ret.status = "returned" /\ req.op = "convert"
  /\ req.opts.audio.codec = "pcm" /\ ~Has(req.opts.audio, "endianness")
  /\ \E k \in 2..Len(ConvertArgs) : ConvertArgs[k - 1] = "-c:a" /\ ConvertArgs[k] = "pcm_u8"

(***************************************************************************)
(* C13: for a convert spec with a map list of n entries, buildConvertArgs  *)
(* emits exactly n "-map <token>" pairs, in the order of the list, all     *)
(* after the "-i <input>" pair and before any video/audio codec token;     *)
(* each token is one string: "-" if excluded, the input index, ":<type>"   *)
(* if a type is given, ":<stream>" if a stream index is given, "?" if      *)
(* optional.  With no map list no "-map" token is emitted.                 *)
(***************************************************************************)
MapList == IF "map" \in DOMAIN req.opts THEN req.opts.map ELSE <<>>

\* the composite token the claim describes for one entry of the list
DirectiveText(m) ==
  LET flag(key) == key \in DOMAIN m /\ m[key]
      excl == IF flag("exclude") THEN "-" ELSE ""
      type == IF "type" \in DOMAIN m THEN ":" \o m.type ELSE ""
      strm == IF "stream" \in DOMAIN m THEN ":" \o ToString(m.stream) ELSE ""
      optl == IF flag("optional") THEN "?" ELSE ""
  IN  excl \o ToString(m.input) \o type \o strm \o optl

CodecTokens == {"-c:v", "-vn", "-c:a", "-an"}

C13_MapDirectives ==
  ConvertReturned
    => LET a == ConvertArgs
           P == {k \in 1..Len(a) : a[k] = "-map"}
           nth(j) == CHOOSE k \in P : Cardinality({i \in P : i < k}) = j - 1
       IN  /\ Cardinality(P) = Len(MapList)
           /\ \A j \in 1..Len(MapList) :
                /\ nth(j) < Len(a)
                /\ a[nth(j) + 1] = DirectiveText(MapList[j])
           /\ \A k \in P :
                /\ FirstPos(a, "-i") > 0
                /\ k > FirstPos(a, "-i") + 1
                /\ \A c \in 1..Len(a) : a[c] \in CodecTokens => k + 1 < c

\* C13: a convert call with two different map entries, a video and an audio
\* codec returned
C13_Witness ==
  /\ ConvertReturned /\ req.op = "convert"
  /\ Len(MapList) = 2 /\ MapList[1] # MapList[2]
  /\ "exclude" \in DOMAIN MapList[1] /\ "optional" \in DOMAIN MapList[2]
  /\ \E c \in 1..Len(ConvertArgs) : ConvertArgs[c] = "-c:v"
  /\ \E c \in 1..Len(ConvertArgs) : ConvertArgs[c] = "-c:a"
  /\ ~req.opts.metadata

(***************************************************************************)
(* C14: extractFrames returns one frame entry for each line of the         *)
(* transcoder's stderr output that starts with "[Parsed_showinfo_" and     *)
(* contains a "pts_time:<number>" field, and for no other line; the        *)
(* entries are in the order of the lines (not sorted), each with that      *)
(* line's pts_time as its timestamp; output with no such line yields an    *)
(* empty frame list.                                                       *)
(***************************************************************************)
ExtractFramesDone == Done /\ req.op = "extractFrames"

\* the positions of t where a line (a run without line breaks) begins
LineStarts(t) ==
  {k \in 1..Len(t) : t[k] \notin LineBreaks /\ (k = 1 \/ t[k - 1] \in LineBreaks)}

LineFrom(t, k) == SubSeq(t, k, SpanNotIn(t, k, LineBreaks) - 1)

\* the positions of a line where a pts_time field with a number begins: white
\* space, pts_time:, optional white space, a digit
PtsFields(line) ==
  {p \in 1..Len(line) :
     /\ line[p] \in Whitespace
     /\ p + 9 <= Len(line)
     /\ SubSeq(line, p + 1, p + 9) = <<"p", "t", "s", "_", "t", "i", "m", "e", ":">>
     /\ \E d \in (p + 10)..Len(line) :
          /\ line[d] \in Digits
          /\ \A w \in (p + 10)..(d - 1) : line[w] \in Whitespace}

ShowinfoLine(line) ==
  /\ Len(line) >= 17
  /\ SubSeq(line, 1, 17) = <<"[", "P", "a", "r", "s", "e", "d", "_", "s", "h", "o", "w",
                             "i", "n", "f", "o", "_">>
  /\ PtsFields(line) # {}

\* the number of the first pts_time field of a line
PtsTime(line) ==
  LET p == CHOOSE q \in PtsFields(line) : \A r \in PtsFields(line) : q <= r
  IN  parseFloatText(SubSeq(line, p + 10, Len(line)))

\* the beginnings of the lines of the stderr text that carry a frame
FrameLines == {k \in LineStarts(req.raw) : ShowinfoLine(LineFrom(req.raw, k))}

C14_FramesInLineOrder ==
  ExtractFramesDone
    => LET nth(j) == CHOOSE k \in FrameLines :
                       Cardinality({i \in FrameLines : i < k}) = j - 1
       IN  /\ ret.status = "returned"
           /\ DOMAIN ret.value = {"frames"}
           /\ Len(ret.value.frames) = Cardinality(FrameLines)
           /\ \A j \in 1..Len(ret.value.frames) :
                /\ DOMAIN ret.value.frames[j] = {"timestamp"}
                /\ ret.value.frames[j].timestamp.kind = "number"
                /\ SameNumber(ret.value.frames[j].timestamp,
                              PtsTime(LineFrom(req.raw, nth(j))))

\* C14: three lines of stderr, a showinfo line with a pts_time, a line that
\* has a pts_time but is no showinfo line, and a showinfo line with a smaller
\* pts_time, gave two frames in the order of the lines
C14_Witness ==
  /\ ExtractFramesDone
  /\ Cardinality(LineStarts(req.raw)) = 3
  /\ Cardinality(FrameLines) = 2
  /\ \E k \in LineStarts(req.raw) \ FrameLines :
       /\ PtsFields(LineFrom(req.raw, k)) # {}
       /\ \E i, j \in FrameLines : i < k /\ k < j
  /\ Len(ret.value.frames) = 2
  /\ lessThan(ret.value.frames[2].timestamp, ret.value.frames[1].timestamp)

====
